---- MODULE Spec2Model ----
(***************************************************************************)
(* The dashboard thunks of src/src/store/dashboard/thunks.js as a state    *)
(* machine: the note operations (startNewNote, startLoadingNotes,          *)
(* startSaveNotes, startUploadingFiles, startDeletingNote) and the landing *)
(* page reset (resetInfo), run by a single-threaded event loop.  Every     *)
(* action is one synchronous run of a thunk between two suspension points  *)
(* (an await on a remote call); thunks of different invocations interleave *)
(* at those points only.                                                   *)
(***************************************************************************)
EXTENDS Integers, Sequences, FiniteSets, TLC

\* ---------------------------------------------------------------- bounds
\* user-triggered thunk invocations in one behaviour
MaxOps == 3
\* files handed to one startUploadingFiles call
MaxFiles == 2
\* thunks suspended at an await when the user dispatches one more
MaxPending == 2

\* ---------------------------------------------------------------- values
\* getState().auth.uid when nobody is signed in (undefined / null: falsy)
NoUid == ""
Uids == {NoUid, "u1"}

\* `${uid}` inside a template literal: an absent uid still renders as text
UidPath(u) == IF u = NoUid THEN "undefined" ELSE u

Namespaces == {UidPath(u) : u \in Uids}
NoteIds == 1..MaxOps
Paths == Namespaces \X NoteIds

\* the section keys of idToDispatchMap
RegisteredKeys ==
  {"navbar", "heroSection", "history", "programStructure",
   "expeditionGroup", "events", "organization", "footer"}
\* a key the table does not list, but every object literal inherits
InheritedKeys == {"toString"}
\* a key found neither in the table nor on its prototype chain
UnknownKeys == {"unknown_key"}
SectionKeys == RegisteredKeys \cup InheritedKeys \cup UnknownKeys

\* the sections whose slice is not kept in heroSectionSlice
PlainKeys == RegisteredKeys \ {"heroSection"}

\* docSnap.data() of er_landing_page/<section>: a plain map of fields when the
\* document exists, undefined when it does not
Undefined == [kind |-> "undefined", of |-> ""]
LandingData(section) ==
  IF section \in RegisteredKeys THEN [kind |-> "map", of |-> section] ELSE Undefined

\* new Date().toLocaleString(): the clock is not read by anything else
Now == "now"

\* the URL the storage service answers for an uploaded file
fileUpload(f) == [url |-> f]

FileSeqs == {[i \in 1..n |-> i] : n \in 0..MaxFiles}

\* ---------------------------------------------------------------- state
VARIABLES
  uid,           \* getState().auth.uid
  notes,         \* dashboard.notes: the client Notes collection
  active,        \* dashboard.active: <<>> for null, <<note>> otherwise
  isSaving,      \* dashboard.isSaving
  isCanceling,   \* dashboard.isCanceling
  errorMessage,  \* the message of the last handleError
  sections,      \* info of the landing-page slices other than heroSection
  heroSection,   \* heroSectionSlice state.info
  activeSection, \* dashboard.activeSection
  remote,        \* the documents under <uid>/journal/notes/<id>
  started,       \* how many thunks the user has dispatched
  ops,           \* the user's thunks suspended at an await, in start order
  reloads,       \* the startLoadingNotes thunks suspended at their await
  last,          \* the user's thunk that settled in the step just taken, as its
                 \* caller observes it (NoThunk: none did)
  lastLoad,      \* the startLoadingNotes thunk that settled in that step
  deleted        \* the document paths at which a deleteDoc has succeeded

vars ==
  <<uid, notes, active, isSaving, isCanceling, errorMessage,
    sections, heroSection, activeSection, remote,
    started, ops, reloads, last, lastLoad, deleted>>

client == <<notes, active, isSaving, isCanceling, errorMessage>>
landing == <<sections, heroSection, activeSection>>

\* ---------------------------------------------------------------- helpers
\* handleError(message)
handleError(msg) == errorMessage' = msg

\* the notes the remote store holds under a namespace, in document-id order,
\* each with its document id (helpers' loadNotes)
RECURSIVE loadNotes(_, _)
loadNotes(ns, k) ==
  IF k = 0 THEN <<>>
  ELSE LET rest == loadNotes(ns, k - 1)
           d == remote[<<ns, k>>]
       IN IF d = <<>> THEN rest ELSE Append(rest, [id |-> k] @@ d[1])

\* noteToFireStore without its `delete noteToFireStore.id`
noteToFireStore_KeepsId(activeNote) ==
  [f \in DOMAIN activeNote |-> activeNote[f]]

\* {...activeNote}; delete noteToFireStore.id
noteToFireStore(activeNote) ==
  [f \in (DOMAIN activeNote) \ {"id"} |-> activeNote[f]]

\* setDocMerge as an update that needs the document to exist
setDocMerge_UpdateOnly(old, data) ==
  IF old = <<>> THEN <<>>
  ELSE <<[f \in (DOMAIN old[1]) \cup (DOMAIN data) |->
            IF f \in DOMAIN data THEN data[f] ELSE old[1][f]]>>

\* setDoc(docRef, data, {merge: true}) on the stored document (<<>>: none)
setDocMerge(old, data) ==
  IF old = <<>> THEN <<data>>
  ELSE <<[f \in (DOMAIN old[1]) \cup (DOMAIN data) |->
            IF f \in DOMAIN data THEN data[f] ELSE old[1][f]]>>

\* a suspended thunk leaves the event loop's waiting list
Remove(s, i) == SubSeq(s, 1, i - 1) \o SubSeq(s, i + 1, Len(s))

\* what the caller of a settled thunk observes: the outcome of the returned
\* promise; with it, how many handleError actions the thunk dispatched, how many
\* times it dispatched startLoadingNotes() and how many remote calls it issued
Settled(o, outcome, reported, triggered, calls) ==
  [op |-> o, outcome |-> outcome,
   reported |-> reported, reloads |-> triggered, calls |-> calls]

\* the same for a startLoadingNotes thunk: `by` is "user" or the kind of the
\* thunk that dispatched it, `caller` the outcome of that thunk
SettledLoad(r, outcome, reported, calls) ==
  [by |-> r.by, caller |-> r.caller, outcome |-> outcome,
   reported |-> reported, calls |-> calls]

\* no thunk settled in the step
NoThunk == [op |-> [kind |-> "none"], outcome |-> "none",
            reported |-> 0, reloads |-> 0, calls |-> 0]
NoLoad == [by |-> "none", caller |-> "none", outcome |-> "none",
           reported |-> 0, calls |-> 0]

CanStart == started < MaxOps /\ Len(ops) + Len(reloads) < MaxPending

\* the thunks that set isSaving
SavingKinds == {"create", "save", "upload", "delete"}

\* a thunk the user dispatches now. `alone`: no other thunk of the user is
\* suspended now (and isSaving is false, for a thunk that sets it), and none
\* is dispatched before this one settles
Thunk(kind) ==
  [kind |-> kind, alone |-> (ops = <<>> /\ (kind \in SavingKinds => ~isSaving))]

\* the suspended thunks once another thunk is dispatched beside them
Beside == [k \in DOMAIN ops |-> [ops[k] EXCEPT !.alone = FALSE]]

\* ---------------------------------------------------------------- Init
Init ==
  /\ uid \in Uids
  /\ notes = <<>>
  /\ active = <<>>
  /\ isSaving = FALSE
  /\ isCanceling = FALSE
  /\ errorMessage = ""
  /\ sections = [k \in PlainKeys |-> Undefined]
  /\ heroSection = [imageSection |-> Undefined, textSection |-> Undefined]
  /\ activeSection = Undefined
  /\ remote = [p \in Paths |-> <<>>]
  /\ started = 0
  /\ ops = <<>>
  /\ reloads = <<>>
  /\ last = NoThunk
  /\ lastLoad = NoLoad
  /\ deleted = {}

\* ---------------------------------------------------------------- startLoadingNotes
\* the run of startLoadingNotes() up to `await loadNotes(uid)`, dispatched by
\* the user or by a thunk of kind `by` whose promise settles as `caller`, after
\* that thunk's remote call left `wrote` = <<path, document>> in the store
\* (<<>> for the user): with the uid missing it throws before any fetch, which
\* rejects its promise and dispatches nothing
LoadingNotesBegin(by, caller, wrote) ==
  LET r == [by |-> by, caller |-> caller, pc |-> "fetching", snap |-> <<>>,
            wrote |-> wrote]
  IN IF uid = NoUid
     THEN /\ lastLoad' = SettledLoad(r, "raised", 0, 0)
          /\ UNCHANGED reloads
     ELSE /\ reloads' = Append(reloads, r)
          /\ lastLoad' = NoLoad

\* LoadNotes() called by the user
LoadNotesStart ==
  /\ CanStart
  /\ started' = started + 1
  /\ LoadingNotesBegin("user", "none", <<>>)
  /\ ops' = Beside
  /\ UNCHANGED <<uid, client, landing, remote>>
  /\ last' = NoThunk
  /\ UNCHANGED deleted

\* the remote store answers the fetch with the notes it holds at this moment
LoadNotesFetched(r) ==
  /\ r \in DOMAIN reloads
  /\ reloads[r].pc = "fetching"
  /\ reloads' = [reloads EXCEPT ![r] = [@ EXCEPT !.pc = "fetched",
                                           !.snap = loadNotes(UidPath(uid), MaxOps)]]
  /\ UNCHANGED <<uid, client, landing, remote, started, ops>>
  /\ last' = NoThunk
  /\ lastLoad' = NoLoad
  /\ UNCHANGED deleted

\* the answer reaches the thunk: dispatch(setNotes(notes))
LoadNotesInstalled(r) ==
  /\ r \in DOMAIN reloads
  /\ reloads[r].pc = "fetched"
  /\ notes' = reloads[r].snap
  /\ lastLoad' = SettledLoad(reloads[r], "resolved", 0, 1)
  /\ reloads' = Remove(reloads, r)
  /\ UNCHANGED <<uid, active, isSaving, isCanceling, errorMessage,
                 landing, remote, started, ops>>
  /\ last' = NoThunk
  /\ UNCHANGED deleted

\* LoadNotesFailed with an empty collection installed in the catch block
LoadNotesFailed_ClearsNotes(r) ==
  /\ r \in DOMAIN reloads
  /\ reloads[r].pc = "fetching"
  /\ handleError("loadNotes failed")
  /\ notes' = <<>>
  /\ lastLoad' = SettledLoad(reloads[r], "raised", 1, 1)
  /\ reloads' = Remove(reloads, r)
  /\ UNCHANGED <<uid, active, isSaving, isCanceling,
                 landing, remote, started, ops>>
  /\ last' = NoThunk
  /\ UNCHANGED deleted

\* loadNotes rejected: the catch block
LoadNotesFailed(r) ==
  /\ r \in DOMAIN reloads
  /\ reloads[r].pc = "fetching"
  /\ handleError("loadNotes failed")
  /\ lastLoad' = SettledLoad(reloads[r], "raised", 1, 1)
  /\ reloads' = Remove(reloads, r)
  /\ UNCHANGED <<uid, notes, active, isSaving, isCanceling,
                 landing, remote, started, ops>>
  /\ last' = NoThunk
  /\ UNCHANGED deleted

\* ---------------------------------------------------------------- startNewNote
\* up to `await setDoc(newDoc, newNote)`; doc(collection(...)) draws the id of
\* the new document
NewNoteStart ==
  /\ CanStart
  /\ started' = started + 1
  /\ LET n == Len(notes)
         newNote == [title |-> <<"Nota", n + 1>>, body |-> <<"Body", n + 1>>,
                     date |-> Now, imagesUrls |-> <<>>]
         newDoc == <<UidPath(uid), started + 1>>
     IN ops' = Append(Beside, Thunk("create") @@ [note |-> newNote, path |-> newDoc])
  /\ isSaving' = TRUE
  /\ UNCHANGED <<uid, notes, active, isCanceling, errorMessage,
                 landing, remote, reloads>>
  /\ last' = NoThunk
  /\ lastLoad' = NoLoad
  /\ UNCHANGED deleted

\* NewNoteWritten without its dispatch(startLoadingNotes())
NewNoteWritten_NoReload(i) ==
  /\ i \in DOMAIN ops
  /\ ops[i].kind = "create"
  /\ LET o == ops[i]
         newNote == [id |-> o.path[2]] @@ o.note
     IN /\ remote' = [remote EXCEPT ![o.path] = <<o.note>>]
        /\ active' = <<newNote>>
        /\ isSaving' = FALSE
        /\ last' = Settled(o, "resolved", 0, 0, 1)
  /\ ops' = Remove(ops, i)
  /\ UNCHANGED <<uid, notes, isCanceling, errorMessage, landing, started,
                 reloads>>
  /\ lastLoad' = NoLoad
  /\ UNCHANGED deleted

\* setDoc resolved: the rest of the try block and the finally block
NewNoteWritten(i) ==
  /\ i \in DOMAIN ops
  /\ ops[i].kind = "create"
  /\ LET o == ops[i]
         newNote == [id |-> o.path[2]] @@ o.note
     IN /\ remote' = [remote EXCEPT ![o.path] = <<o.note>>]
        /\ LoadingNotesBegin("create", "resolved", <<o.path, <<o.note>>>>)
        /\ active' = <<newNote>>
        /\ isSaving' = FALSE
        /\ last' = Settled(o, "resolved", 0, 1, 1)
  /\ ops' = Remove(ops, i)
  /\ UNCHANGED <<uid, notes, isCanceling, errorMessage, landing, started>>
  /\ UNCHANGED deleted

\* setDoc rejected: the catch block and the finally block
NewNoteFailed(i) ==
  /\ i \in DOMAIN ops
  /\ ops[i].kind = "create"
  /\ handleError("setDoc failed")
  /\ isSaving' = FALSE
  /\ last' = Settled(ops[i], "raised", 1, 0, 1)
  /\ ops' = Remove(ops, i)
  /\ UNCHANGED <<uid, notes, active, isCanceling, landing, remote, started,
                 reloads>>
  /\ lastLoad' = NoLoad
  /\ UNCHANGED deleted

\* ---------------------------------------------------------------- startSaveNotes
\* SaveNotesStart with dispatch(startLoadingNotes()) moved before the await
SaveNotesStart_ReloadsFirst ==
  /\ CanStart
  /\ active # <<>>
  /\ started' = started + 1
  /\ LET activeNote == active[1]
         docRef == <<UidPath(uid), activeNote.id>>
     IN /\ ops' = Append(Beside, Thunk("save") @@ [note |-> noteToFireStore(activeNote),
                                                     path |-> docRef])
        /\ LoadingNotesBegin("save", "none",
                             <<docRef, setDocMerge(remote[docRef], noteToFireStore(activeNote))>>)
  /\ isSaving' = TRUE
  /\ UNCHANGED <<uid, notes, active, isCanceling, errorMessage,
                 landing, remote>>
  /\ last' = NoThunk
  /\ UNCHANGED deleted

\* the try block up to `await setDoc(docRef, noteToFireStore, {merge: true})`
\* with an active note
SaveNotesStart ==
  /\ CanStart
  /\ active # <<>>
  /\ started' = started + 1
  /\ LET activeNote == active[1]
         docRef == <<UidPath(uid), activeNote.id>>
     IN ops' = Append(Beside, Thunk("save") @@ [note |-> noteToFireStore(activeNote),
                                                  path |-> docRef])
  /\ isSaving' = TRUE
  /\ UNCHANGED <<uid, notes, active, isCanceling, errorMessage,
                 landing, remote, reloads>>
  /\ last' = NoThunk
  /\ lastLoad' = NoLoad
  /\ UNCHANGED deleted

\* active is null: `activeNote.id` throws a TypeError inside the try block, so
\* setSaving, the catch block and the finally block run in one go
SaveNotesNoActive ==
  /\ CanStart
  /\ active = <<>>
  /\ started' = started + 1
  /\ handleError("TypeError")
  /\ isSaving' = FALSE
  /\ last' = Settled(Thunk("save"), "raised", 1, 0, 0)
  /\ ops' = Beside
  /\ UNCHANGED <<uid, notes, active, isCanceling, landing, remote,
                 reloads>>
  /\ lastLoad' = NoLoad
  /\ UNCHANGED deleted

\* setDoc resolved: dispatch(startLoadingNotes()) and the finally block
SaveNotesWritten(i) ==
  /\ i \in DOMAIN ops
  /\ ops[i].kind = "save"
  /\ LET o == ops[i]
     IN /\ remote' = [remote EXCEPT ![o.path] = setDocMerge(@, o.note)]
        /\ LoadingNotesBegin("save", "resolved",
                             <<o.path, setDocMerge(remote[o.path], o.note)>>)
        /\ isSaving' = FALSE
        /\ last' = Settled(o, "resolved", 0, 1, 1)
  /\ ops' = Remove(ops, i)
  /\ UNCHANGED <<uid, notes, active, isCanceling, errorMessage, landing, started>>
  /\ UNCHANGED deleted

\* setDoc rejected: the catch block and the finally block
SaveNotesFailed(i) ==
  /\ i \in DOMAIN ops
  /\ ops[i].kind = "save"
  /\ handleError("setDoc failed")
  /\ isSaving' = FALSE
  /\ last' = Settled(ops[i], "raised", 1, 0, 1)
  /\ ops' = Remove(ops, i)
  /\ UNCHANGED <<uid, notes, active, isCanceling, landing, remote, started,
                 reloads>>
  /\ lastLoad' = NoLoad
  /\ UNCHANGED deleted

\* ---------------------------------------------------------------- startUploadingFiles
\* setPhotosToActiveNote(photosUrls) on dashboard.active
setPhotosToActiveNote(a, photosUrls) ==
  <<[a[1] EXCEPT !.imagesUrls = @ \o photosUrls]>>

\* the states of one fileUpload promise
Pending == [st |-> "pending"]
Fulfilled(url) == [st |-> "ok", url |-> url]
Rejected == [st |-> "failed"]

\* the value Promise.all resolves with: the results in the order of the promises
PromiseAll(results) == [j \in DOMAIN results |-> results[j].url]

\* UploadSettled with the URLs taken in the order in which the uploads resolved,
\* as a gather that collects results on arrival would
UploadSettled_ArrivalOrder(o, results) ==
  /\ isSaving' = FALSE
  /\ IF active # <<>>
     THEN /\ active' = setPhotosToActiveNote(
                         active, [k \in DOMAIN o.done |-> results[o.done[k]].url])
          /\ last' = Settled([o EXCEPT !.results = results], "resolved", 0, 0,
                             Len(o.files))
          /\ UNCHANGED errorMessage
     ELSE /\ handleError("TypeError")
          /\ last' = Settled([o EXCEPT !.results = results], "raised", 1, 0,
                             Len(o.files))
          /\ UNCHANGED active

\* what runs once Promise.all has resolved: the dispatch, and the catch block when
\* the reducer throws on a null active note; then the finally block
UploadSettled(o, results) ==
  /\ isSaving' = FALSE
  /\ IF active # <<>>
     THEN /\ active' = setPhotosToActiveNote(active, PromiseAll(results))
          /\ last' = Settled([o EXCEPT !.results = results], "resolved", 0, 0,
                             Len(o.files))
          /\ UNCHANGED errorMessage
     ELSE /\ handleError("TypeError")
          /\ last' = Settled([o EXCEPT !.results = results], "raised", 1, 0,
                             Len(o.files))
          /\ UNCHANGED active

\* a call with files: setSaving and one fileUpload per file, up to
\* `await Promise.all(fileUploadPromises)`
UploadStart(files) ==
  /\ CanStart
  /\ files # <<>>
  /\ started' = started + 1
  /\ ops' = Append(Beside, Thunk("upload") @@
                           [files |-> files, results |-> [j \in DOMAIN files |-> Pending],
                            done |-> <<>>])
  /\ isSaving' = TRUE
  /\ UNCHANGED <<uid, notes, active, isCanceling, errorMessage,
                 landing, remote, reloads>>
  /\ last' = NoThunk
  /\ lastLoad' = NoLoad
  /\ UNCHANGED deleted

\* a call without files: Promise.all([]) is already resolved, so the thunk runs
\* to its end before any other task of the event loop
UploadNothing ==
  /\ CanStart
  /\ started' = started + 1
  /\ UploadSettled(Thunk("upload") @@ [files |-> <<>>, results |-> <<>>, done |-> <<>>],
                   <<>>)
  /\ ops' = Beside
  /\ UNCHANGED <<uid, notes, isCanceling, landing, remote, reloads>>
  /\ lastLoad' = NoLoad
  /\ UNCHANGED deleted

\* one upload resolves (`done` keeps the order in which the uploads of the batch
\* resolved); with the last one Promise.all resolves
UploadFileDone(i, j) ==
  /\ i \in DOMAIN ops
  /\ ops[i].kind = "upload"
  /\ j \in DOMAIN ops[i].files
  /\ ops[i].results[j] = Pending
  /\ LET o == [ops[i] EXCEPT !.done = Append(@, j)]
         results == [o.results EXCEPT ![j] = Fulfilled(fileUpload(o.files[j]))]
     IN IF \A k \in DOMAIN results : results[k].st = "ok"
        THEN /\ UploadSettled(o, results)
             /\ ops' = Remove(ops, i)
        ELSE /\ ops' = [ops EXCEPT ![i] = [o EXCEPT !.results = results]]
             /\ last' = NoThunk
             /\ UNCHANGED <<active, isSaving, errorMessage>>
  /\ UNCHANGED <<uid, notes, isCanceling, landing, remote, started, reloads>>
  /\ lastLoad' = NoLoad
  /\ UNCHANGED deleted

\* UploadFileFailed with the URLs of the uploads that did succeed applied to the
\* active note, as a gather that keeps partial results would
UploadFileFailed_KeepsPartial(i, j) ==
  /\ i \in DOMAIN ops
  /\ ops[i].kind = "upload"
  /\ j \in DOMAIN ops[i].files
  /\ ops[i].results[j] = Pending
  /\ handleError("fileUpload failed")
  /\ isSaving' = FALSE
  /\ active' = IF active = <<>> THEN active
               ELSE setPhotosToActiveNote(
                      active,
                      SelectSeq([k \in DOMAIN ops[i].files |-> fileUpload(ops[i].files[k])],
                                LAMBDA u : \E k \in DOMAIN ops[i].results :
                                             ops[i].results[k] = Fulfilled(u)))
  /\ last' = Settled([ops[i] EXCEPT !.results[j] = Rejected], "raised", 1, 0,
                     Len(ops[i].files))
  /\ ops' = Remove(ops, i)
  /\ UNCHANGED <<uid, notes, isCanceling, landing, remote, started,
                 reloads>>
  /\ lastLoad' = NoLoad
  /\ UNCHANGED deleted

\* one upload rejects: Promise.all rejects at once; the catch and finally blocks
UploadFileFailed(i, j) ==
  /\ i \in DOMAIN ops
  /\ ops[i].kind = "upload"
  /\ j \in DOMAIN ops[i].files
  /\ ops[i].results[j] = Pending
  /\ handleError("fileUpload failed")
  /\ isSaving' = FALSE
  /\ last' = Settled([ops[i] EXCEPT !.results[j] = Rejected], "raised", 1, 0,
                     Len(ops[i].files))
  /\ ops' = Remove(ops, i)
  /\ UNCHANGED <<uid, notes, active, isCanceling, landing, remote, started,
                 reloads>>
  /\ lastLoad' = NoLoad
  /\ UNCHANGED deleted

\* ---------------------------------------------------------------- startDeletingNote
\* the try block up to `await deleteDoc(docRef)` with an active note
DeletingNoteStart ==
  /\ CanStart
  /\ active # <<>>
  /\ started' = started + 1
  /\ LET noteActive == active[1]
         docRef == <<UidPath(uid), noteActive.id>>
     IN ops' = Append(Beside, Thunk("delete") @@ [path |-> docRef])
  /\ isSaving' = TRUE
  /\ UNCHANGED <<uid, notes, active, isCanceling, errorMessage,
                 landing, remote, reloads>>
  /\ last' = NoThunk
  /\ lastLoad' = NoLoad
  /\ UNCHANGED deleted

\* DeletingNoteNoActive with the reload dispatched from the catch block
DeletingNoteNoActive_Reloads ==
  /\ CanStart
  /\ active = <<>>
  /\ started' = started + 1
  /\ isSaving' = TRUE
  /\ handleError("TypeError")
  /\ LoadingNotesBegin("delete", "raised", <<>>)
  /\ last' = Settled(Thunk("delete"), "raised", 1, 1, 0)
  /\ ops' = Beside
  /\ UNCHANGED <<uid, notes, active, isCanceling, landing, remote>>
  /\ UNCHANGED deleted

\* active is null: `noteActive.id` throws a TypeError; setSaving and the catch
\* block run in one go, and there is no finally block
DeletingNoteNoActive ==
  /\ CanStart
  /\ active = <<>>
  /\ started' = started + 1
  /\ isSaving' = TRUE
  /\ handleError("TypeError")
  /\ last' = Settled(Thunk("delete"), "raised", 1, 0, 0)
  /\ ops' = Beside
  /\ UNCHANGED <<uid, notes, active, isCanceling, landing, remote,
                 reloads>>
  /\ lastLoad' = NoLoad
  /\ UNCHANGED deleted

\* deleteDoc resolved: dispatch(startLoadingNotes()); nothing resets isSaving
DeletingNoteDeleted(i) ==
  /\ i \in DOMAIN ops
  /\ ops[i].kind = "delete"
  /\ LET o == ops[i]
     IN /\ remote' = [remote EXCEPT ![o.path] = <<>>]
        /\ LoadingNotesBegin("delete", "resolved", <<o.path, <<>>>>)
        /\ last' = Settled(o, "resolved", 0, 1, 1)
  /\ ops' = Remove(ops, i)
  /\ UNCHANGED <<uid, client, landing, started>>
  /\ deleted' = deleted \cup {ops[i].path}

\* deleteDoc rejected: the catch block
DeletingNoteFailed(i) ==
  /\ i \in DOMAIN ops
  /\ ops[i].kind = "delete"
  /\ handleError("deleteDoc failed")
  /\ last' = Settled(ops[i], "raised", 1, 0, 1)
  /\ ops' = Remove(ops, i)
  /\ UNCHANGED <<uid, notes, active, isSaving, isCanceling, landing, remote,
                 started, reloads>>
  /\ lastLoad' = NoLoad
  /\ UNCHANGED deleted

\* ---------------------------------------------------------------- resetInfo
\* the action creator idToDispatchMap[section] evaluates to: the listed one, a
\* function inherited from Object.prototype, or undefined
idToDispatchMap(section) ==
  IF section \in RegisteredKeys THEN <<"creator", section>>
  ELSE IF section \in InheritedKeys THEN <<"inherited", section>>
  ELSE <<"undefined", section>>

\* payload.find(item => item.id === id) of heroSectionSlice, on an array payload
Find(items, id) ==
  IF \E j \in DOMAIN items : items[j].id = id
  THEN items[CHOOSE j \in DOMAIN items :
               /\ items[j].id = id
               /\ \A k \in DOMAIN items : items[k].id = id => j <= k]
  ELSE Undefined

\* whether a content-set reducer runs to its end on this payload:
\* setHeroSectionInfo calls payload.find, which only an array has
ReducerAccepts(section, payload) ==
  section = "heroSection" => payload.kind = "list"

\* the reducer setHeroSectionInfo
setHeroSectionInfo(info, payload) ==
  [info EXCEPT !.imageSection = Find(payload.items, "imageSection"),
               !.textSection = Find(payload.items, "textSection")]

\* the content-set reducers of the other landing-page slices
setSectionInfo(all, section, payload) ==
  [all EXCEPT ![section] = payload]

\* ResetInfoStart with setCanceling() dispatched whatever `cancelled` is
ResetInfoStart_AlwaysCanceling(section, cancelled) ==
  /\ CanStart
  /\ started' = started + 1
  /\ isCanceling' = TRUE
  /\ ops' = Append(Beside, Thunk("reset") @@
                           [section |-> section, cancelled |-> cancelled,
                            fetched |-> FALSE, dispatched |-> <<>>])
  /\ UNCHANGED <<uid, notes, active, isSaving, errorMessage,
                 landing, remote, reloads>>
  /\ last' = NoThunk
  /\ lastLoad' = NoLoad
  /\ UNCHANGED deleted

\* up to `await getDoc(docRef)`
ResetInfoStart(section, cancelled) ==
  /\ CanStart
  /\ started' = started + 1
  /\ isCanceling' = (IF cancelled THEN TRUE ELSE isCanceling)
  /\ ops' = Append(Beside, Thunk("reset") @@
                           [section |-> section, cancelled |-> cancelled,
                            fetched |-> FALSE, dispatched |-> <<>>])
  /\ UNCHANGED <<uid, notes, active, isSaving, errorMessage,
                 landing, remote, reloads>>
  /\ last' = NoThunk
  /\ lastLoad' = NoLoad
  /\ UNCHANGED deleted

\* getDoc resolved and the table lists the section: the content-set action, then
\* setActiveSection, then resetIsCanceling when cancelled
ResetInfoDispatched(i) ==
  /\ i \in DOMAIN ops
  /\ ops[i].kind = "reset"
  /\ idToDispatchMap(ops[i].section)[1] = "creator"
  /\ LET o == ops[i]
         infoReset == LandingData(o.section)
     IN /\ ReducerAccepts(o.section, infoReset)
        /\ IF o.section = "heroSection"
           THEN /\ heroSection' = setHeroSectionInfo(heroSection, infoReset)
                /\ UNCHANGED sections
           ELSE /\ sections' = setSectionInfo(sections, o.section, infoReset)
                /\ UNCHANGED heroSection
        /\ activeSection' = infoReset
        /\ isCanceling' = (IF o.cancelled THEN FALSE ELSE isCanceling)
        /\ last' = Settled([o EXCEPT !.fetched = TRUE,
                                     !.dispatched =
                                        <<idToDispatchMap(o.section)[2], "setActiveSection">>
                                        \o (IF o.cancelled THEN <<"resetIsCanceling">>
                                            ELSE <<>>)],
                           "resolved", 0, 0, 1)
  /\ ops' = Remove(ops, i)
  /\ UNCHANGED <<uid, notes, active, isSaving, errorMessage, remote, started,
                 reloads>>
  /\ lastLoad' = NoLoad
  /\ UNCHANGED deleted

\* getDoc resolved, the table lists the section, and the reducer of the content-set
\* action throws on the fetched data: the dispatch throws into the catch block
ResetInfoReducerThrew(i) ==
  /\ i \in DOMAIN ops
  /\ ops[i].kind = "reset"
  /\ idToDispatchMap(ops[i].section)[1] = "creator"
  /\ ~ReducerAccepts(ops[i].section, LandingData(ops[i].section))
  /\ handleError("TypeError")
  /\ last' = Settled([ops[i] EXCEPT !.fetched = TRUE], "raised", 1, 0, 1)
  /\ ops' = Remove(ops, i)
  /\ UNCHANGED <<uid, notes, active, isSaving, isCanceling, landing, remote,
                 started, reloads>>
  /\ lastLoad' = NoLoad
  /\ UNCHANGED deleted

\* getDoc resolved and the lookup finds a function of Object.prototype: what it
\* returns is no action, so dispatch throws into the catch block
ResetInfoInherited(i) ==
  /\ i \in DOMAIN ops
  /\ ops[i].kind = "reset"
  /\ idToDispatchMap(ops[i].section)[1] = "inherited"
  /\ handleError("Actions must be plain objects")
  /\ last' = Settled([ops[i] EXCEPT !.fetched = TRUE], "raised", 1, 0, 1)
  /\ ops' = Remove(ops, i)
  /\ UNCHANGED <<uid, notes, active, isSaving, isCanceling, landing, remote,
                 started, reloads>>
  /\ lastLoad' = NoLoad
  /\ UNCHANGED deleted

\* getDoc resolved and the lookup finds nothing: the if block is skipped
ResetInfoSkipped(i) ==
  /\ i \in DOMAIN ops
  /\ ops[i].kind = "reset"
  /\ idToDispatchMap(ops[i].section)[1] = "undefined"
  /\ last' = Settled([ops[i] EXCEPT !.fetched = TRUE], "resolved", 0, 0, 1)
  /\ ops' = Remove(ops, i)
  /\ UNCHANGED <<uid, client, landing, remote, started, reloads>>
  /\ lastLoad' = NoLoad
  /\ UNCHANGED deleted

\* ResetInfoFailed with a resetIsCanceling dispatched on the way out
ResetInfoFailed_ResetsCanceling(i) ==
  /\ i \in DOMAIN ops
  /\ ops[i].kind = "reset"
  /\ handleError("getDoc failed")
  /\ isCanceling' = FALSE
  /\ last' = Settled(ops[i], "raised", 1, 0, 1)
  /\ ops' = Remove(ops, i)
  /\ UNCHANGED <<uid, notes, active, isSaving, landing, remote,
                 started, reloads>>
  /\ lastLoad' = NoLoad
  /\ UNCHANGED deleted

\* getDoc rejected: the catch block
ResetInfoFailed(i) ==
  /\ i \in DOMAIN ops
  /\ ops[i].kind = "reset"
  /\ handleError("getDoc failed")
  /\ last' = Settled(ops[i], "raised", 1, 0, 1)
  /\ ops' = Remove(ops, i)
  /\ UNCHANGED <<uid, notes, active, isSaving, isCanceling, landing, remote,
                 started, reloads>>
  /\ lastLoad' = NoLoad
  /\ UNCHANGED deleted

\* ---------------------------------------------------------------- specifications
\* the note operations
NextNotes ==
  \/ NewNoteStart
  \/ \E i \in 1..MaxOps : NewNoteWritten(i)
  \/ \E i \in 1..MaxOps : NewNoteFailed(i)
  \/ LoadNotesStart
  \/ \E r \in 1..MaxOps : LoadNotesFetched(r)
  \/ \E r \in 1..MaxOps : LoadNotesInstalled(r)
  \/ \E r \in 1..MaxOps : LoadNotesFailed(r)
  \/ SaveNotesStart
  \/ SaveNotesNoActive
  \/ \E i \in 1..MaxOps : SaveNotesWritten(i)
  \/ \E i \in 1..MaxOps : SaveNotesFailed(i)
  \/ \E files \in FileSeqs : UploadStart(files)
  \/ UploadNothing
  \/ \E i \in 1..MaxOps, j \in 1..MaxFiles : UploadFileDone(i, j)
  \/ \E i \in 1..MaxOps, j \in 1..MaxFiles : UploadFileFailed(i, j)
  \/ DeletingNoteStart
  \/ DeletingNoteNoActive
  \/ \E i \in 1..MaxOps : DeletingNoteDeleted(i)
  \/ \E i \in 1..MaxOps : DeletingNoteFailed(i)

\* the landing-page reset
NextLanding ==
  \/ \E section \in SectionKeys, cancelled \in BOOLEAN : ResetInfoStart(section, cancelled)
  \/ \E i \in 1..MaxOps : ResetInfoDispatched(i)
  \/ \E i \in 1..MaxOps : ResetInfoReducerThrew(i)
  \/ \E i \in 1..MaxOps : ResetInfoInherited(i)
  \/ \E i \in 1..MaxOps : ResetInfoSkipped(i)
  \/ \E i \in 1..MaxOps : ResetInfoFailed(i)

Next == NextNotes \/ NextLanding

\* every thunk, interleaved
Spec == Init /\ [][Next]_vars
\* a session that only works on notes
SpecNotes == Init /\ [][NextNotes]_vars
\* a session that only resets landing-page sections
SpecLanding == Init /\ [][NextLanding]_vars

\* the mutating note operations with every remote call and every fetch answered
\* successfully; the answers arrive in any order
NextSync ==
  \/ NewNoteStart
  \/ \E i \in 1..MaxOps : NewNoteWritten(i)
  \/ SaveNotesStart
  \/ \E i \in 1..MaxOps : SaveNotesWritten(i)
  \/ DeletingNoteStart
  \/ \E i \in 1..MaxOps : DeletingNoteDeleted(i)
  \/ \E r \in 1..MaxOps : LoadNotesFetched(r)
  \/ \E r \in 1..MaxOps : LoadNotesInstalled(r)

\* a session of creates, saves and deletes in which nothing fails
SpecSync == Init /\ [][NextSync]_vars

\* ---------------------------------------------------------------- properties
\* a thunk of the user settles in this step, and `last` in the next state is
\* what its caller observes
OpSettles == last' # NoThunk
\* a startLoadingNotes thunk settles in this step
LoadSettles == lastLoad' # NoLoad

\* C1: every operation that sets isSaving (CreateNote, SaveActiveNote,
\* UploadAttachments, DeleteActiveNote), run alone from a state with isSaving
\* false, leaves isSaving false at the moment its outcome is observed, whether
\* its remote call succeeded or failed.
C1_SavingResetWhenSettled ==
  [][(OpSettles /\ last'.op.kind \in SavingKinds /\ last'.calls >= 1
        /\ last'.op.alone)
       => ~isSaving']_vars

\* C2: with the user identifier absent CreateNote fails on the precondition and
\* issues no remote call: no create is ever waiting for its write, and a settled
\* create has raised without any remote call.
C2_CreateWithoutUidIssuesNothing ==
  uid = NoUid =>
    /\ \A i \in DOMAIN ops : ops[i].kind # "create"
    /\ last.op.kind = "create" => (last.outcome = "raised" /\ last.calls = 0)

\* C3: the active note is null or a note whose id is in the client Notes
\* collection, in every reachable state.
C3_ActiveIsInNotes ==
  active = <<>> \/ \E j \in DOMAIN notes : notes[j].id = active[1].id

\* C4: when a CreateNote whose write succeeded resolves, the active note is the
\* persisted note with the id the store assigned to it, and that call has
\* dispatched the reload of the Notes collection exactly once.
C4_CreateSetsActiveAndReloadsOnce ==
  [][(OpSettles /\ last'.op.kind = "create" /\ last'.outcome = "resolved")
       => /\ last'.op.path[2] \in NoteIds
          /\ remote'[last'.op.path] = <<last'.op.note>>
          /\ active' = <<[id |-> last'.op.path[2]] @@ last'.op.note>>
          /\ last'.reloads = 1
          /\ (Len(reloads') - Len(reloads)) + (IF LoadSettles THEN 1 ELSE 0) = 1]_vars

\* C4 witness: a create has resolved and its note, with its id, is the active note
C4_Witness ==
  /\ last.op.kind = "create" /\ last.outcome = "resolved"
  /\ active # <<>>
  /\ active[1].id = last.op.path[2]
  /\ remote[last.op.path] # <<>>

\* the uploads of a settled batch that failed / that succeeded
AnyFailed(o) == \E j \in DOMAIN o.results : o.results[j].st = "failed"
AllOk(o) == \A j \in DOMAIN o.results : o.results[j].st = "ok"

\* C5: UploadAttachments is all-or-nothing. When a batch of files settles: if an
\* upload failed the active note is unchanged, the error is reported and the
\* operation raises; if none failed, one URL per file is appended to the active
\* note's attachment list. No URL is applied while the batch is still running.
C5_UploadAllOrNothing ==
  [][/\ (OpSettles /\ last'.op.kind = "upload" /\ last'.op.files # <<>>)
          => LET o == last'.op
             IN /\ AnyFailed(o) =>
                     /\ active' = active
                     /\ last'.outcome = "raised"
                     /\ last'.reported = 1
                     /\ errorMessage' = "fileUpload failed"
                /\ (AllOk(o) /\ active # <<>>) =>
                     /\ last'.outcome = "resolved"
                     /\ Len(active'[1].imagesUrls)
                          = Len(active[1].imagesUrls) + Len(o.files)
                     /\ active'[1].imagesUrls
                          = active[1].imagesUrls
                              \o [j \in DOMAIN o.files |-> fileUpload(o.files[j])]
                     /\ active' = <<[active[1] EXCEPT !.imagesUrls = active'[1].imagesUrls]>>
                /\ AnyFailed(o) \/ AllOk(o)
     /\ (~OpSettles /\ \E i \in DOMAIN ops : ops[i].kind = "upload" /\ i \in DOMAIN ops'
                                             /\ ops'[i].kind = "upload"
                                             /\ ops'[i].results # ops[i].results)
          => active' = active]_vars

\* C5 witness: a batch settled after one upload succeeded and another failed,
\* with an active note to receive the URLs
C5_Witness ==
  /\ last.op.kind = "upload" /\ last.outcome = "raised"
  /\ \E j \in DOMAIN last.op.results : last.op.results[j].st = "ok"
  /\ \E j \in DOMAIN last.op.results : last.op.results[j].st = "failed"
  /\ active # <<>>
  /\ active[1].imagesUrls = <<>>

\* C6: every failure of a remote call is surfaced once to the caller (the
\* operation raises) and once to the error report; this includes the failure of
\* the reload that CreateNote, SaveActiveNote or DeleteActiveNote dispatched.
C6_FailuresSurfaceOnce ==
  [][/\ (OpSettles /\ last'.outcome = "raised") => last'.reported = 1
     /\ (LoadSettles /\ lastLoad'.outcome = "raised" /\ lastLoad'.calls = 1)
          => /\ lastLoad'.reported = 1
             /\ lastLoad'.by # "user" => lastLoad'.caller = "raised"]_vars

\* C7: ResetSectionInfo(k, true) for a registered key k whose fetch succeeds
\* dispatches the content-set action of k with the fetched document, sets the
\* active section to it, and has isCanceling false when it resolves.
C7_ResetOfRegisteredKey ==
  [][(OpSettles /\ last'.op.kind = "reset" /\ last'.op.section \in RegisteredKeys
        /\ last'.op.cancelled /\ last'.op.fetched)
       => LET k == last'.op.section
          IN /\ last'.outcome = "resolved"
             /\ last'.op.dispatched = <<k, "setActiveSection", "resetIsCanceling">>
             /\ k \in PlainKeys => sections'[k] = LandingData(k)
             /\ activeSection' = LandingData(k)
             /\ ~isCanceling']_vars

\* C8: ResetSectionInfo(k, true) for a key k the table does not register: the
\* fetch is issued, nothing is dispatched to the sections, no error is reported
\* or raised, and isCanceling is still true after the operation resolves.
C8_ResetOfUnregisteredKey ==
  [][(OpSettles /\ last'.op.kind = "reset" /\ last'.op.section \notin RegisteredKeys
        /\ last'.op.cancelled /\ last'.op.fetched)
       => /\ last'.calls = 1
          /\ last'.outcome = "resolved"
          /\ last'.reported = 0
          /\ last'.op.dispatched = <<>>
          /\ UNCHANGED <<sections, heroSection, activeSection, errorMessage>>
          /\ (last'.op.alone => isCanceling')]_vars

\* C9: when the fetch of ResetSectionInfo(k, true) fails, the error is reported
\* and the operation raises, no section content and no active section changes,
\* and the step leaves isCanceling as it is: true, for a reset that ran alone.
C9_ResetFetchFailure ==
  [][(OpSettles /\ last'.op.kind = "reset" /\ ~last'.op.fetched)
       => /\ last'.outcome = "raised"
          /\ last'.reported = 1
          /\ errorMessage' = "getDoc failed"
          /\ last'.op.dispatched = <<>>
          /\ UNCHANGED <<sections, heroSection, activeSection>>
          /\ isCanceling' = isCanceling
          /\ (last'.op.cancelled /\ last'.op.alone) => isCanceling']_vars

\* C9 witness: a cancelled reset has raised on its fetch and isCanceling is true
C9_Witness ==
  /\ last.op.kind = "reset" /\ last.op.cancelled /\ ~last.op.fetched
  /\ last.outcome = "raised"
  /\ errorMessage = "getDoc failed"
  /\ isCanceling

\* C10: LoadNotes replaces the Notes collection only when its fetch succeeded.
\* With the uid absent it raises without issuing a fetch; when the fetch fails
\* it reports the error and raises; in both cases the collection is unchanged.
C10_LoadReplacesOnlyOnSuccess ==
  [][/\ notes' # notes
          => (LoadSettles /\ lastLoad'.outcome = "resolved" /\ lastLoad'.calls = 1)
     /\ (LoadSettles /\ lastLoad'.outcome = "raised")
          => /\ notes' = notes
             /\ uid = NoUid => lastLoad'.calls = 0
             /\ uid # NoUid => /\ lastLoad'.calls = 1
                               /\ lastLoad'.reported = 1
                               /\ errorMessage' = "loadNotes failed"
     /\ uid = NoUid => reloads' = <<>>]_vars

\* C10 witness: a fetch has failed while the client held a non-empty collection
C10_Witness ==
  /\ lastLoad.outcome = "raised" /\ lastLoad.calls = 1
  /\ notes # <<>>
  /\ errorMessage = "loadNotes failed"

\* a thunk of this kind is dispatched in this step and suspends at its remote
\* call: it is the last of ops in the next state
Suspends(kind) == Len(ops') = Len(ops) + 1 /\ ops'[Len(ops')].kind = kind

\* C11: the document body SaveActiveNote hands to the remote store has every
\* field of the active note except id, with the active note's values, and no id
\* field; the id only appears in the document path. The document the write
\* leaves in the store has those fields and no id field, and the active note in
\* client state is unchanged by the operation, id included.
C11_SaveBodyOmitsId ==
  [][/\ Suspends("save")
          => LET o == ops'[Len(ops')]
             IN /\ "id" \notin DOMAIN o.note
                /\ DOMAIN o.note = (DOMAIN active[1]) \ {"id"}
                /\ \A f \in DOMAIN o.note : o.note[f] = active[1][f]
                /\ o.path = <<UidPath(uid), active[1].id>>
                /\ active' = active
                /\ remote' = remote
     /\ (OpSettles /\ last'.op.kind = "save" /\ last'.outcome = "resolved")
          => LET o == last'.op
             IN /\ remote'[o.path] # <<>>
                /\ "id" \notin DOMAIN remote'[o.path][1]
                /\ \A f \in DOMAIN o.note : remote'[o.path][1][f] = o.note[f]
                /\ \A q \in Paths \ {o.path} : remote'[q] = remote[q]
                /\ active' = active
                /\ active # <<>> => "id" \in DOMAIN active'[1]]_vars

\* C11 witness: a save of the active note has been written: the stored document
\* has the note's fields, and the active note still carries the id of its path
C11_Witness ==
  /\ last.op.kind = "save" /\ last.outcome = "resolved"
  /\ active # <<>>
  /\ active[1].id = last.op.path[2]
  /\ remote[last.op.path] = <<last.op.note>>
  /\ DOMAIN last.op.note = {"title", "body", "date", "imagesUrls"}

C13_UrlsInInputOrder ==
  [][(OpSettles /\ last'.op.kind = "upload" /\ AllOk(last'.op) /\ active # <<>>)
       => LET o == last'.op
              before == active[1].imagesUrls
              after == active'[1].imagesUrls
          IN /\ Len(o.done) = Len(o.files)
             /\ {o.done[k] : k \in DOMAIN o.done} = DOMAIN o.files
             /\ Len(after) = Len(before) + Len(o.files)
             /\ SubSeq(after, 1, Len(before)) = before
             /\ \A j \in DOMAIN o.files :
                  after[Len(before) + j] = fileUpload(o.files[j])]_vars

\* C13 witness: a batch whose second upload resolved before its first has
\* settled, on an active note that already had an attachment
C13_Witness ==
  /\ last.op.kind = "upload" /\ last.outcome = "resolved"
  /\ Len(last.op.files) = 2
  /\ last.op.done = <<2, 1>>
  /\ active # <<>>
  /\ Len(active[1].imagesUrls) = 3
  /\ SubSeq(active[1].imagesUrls, 2, 3)
       = <<fileUpload(last.op.files[1]), fileUpload(last.op.files[2])>>

\* the operations that dispatch a reload of the Notes collection
ReloadingKinds == {"create", "save", "delete"}

\* a startLoadingNotes dispatched by a thunk starts in this step: it suspends at
\* its fetch, or throws at once on the missing uid
ReloadTriggered ==
  \/ Len(reloads') = Len(reloads) + 1 /\ reloads'[Len(reloads')].by # "user"
  \/ LoadSettles /\ lastLoad'.calls = 0 /\ lastLoad'.by # "user"

\* the store answers the fetch of the r-th suspended reload in this step: no
\* reload starts or settles, and that one goes from fetching to fetched
Fetches(r) ==
  /\ Len(reloads') = Len(reloads)
  /\ reloads[r].pc = "fetching"
  /\ reloads' = [reloads EXCEPT ![r] = [@ EXCEPT !.pc = "fetched",
                                                 !.snap = reloads'[r].snap]]

\* the note a fetched collection holds under a document id (<<>>: none)
NoteOf(snap, id) ==
  IF \E j \in DOMAIN snap : snap[j].id = id
  THEN <<snap[CHOOSE j \in DOMAIN snap : snap[j].id = id]>>
  ELSE <<>>

\* C14: CreateNote, SaveActiveNote and DeleteActiveNote dispatch the reload only
\* in the step in which their own write or delete has been acknowledged, with the
\* mutation in the store, and exactly once; when the remote call fails no reload
\* starts and the store is unchanged. The fetch of such a reload reads the store
\* after the mutation: it shows the document the mutation left at its path,
\* unless a later write or delete has changed that document since.
C14_ReloadAfterAcknowledgedWrite ==
  [][/\ ReloadTriggered
          => /\ OpSettles
             /\ last'.op.kind \in ReloadingKinds
             /\ last'.outcome = "resolved"
             /\ last'.calls = 1
             /\ last'.reloads = 1
             /\ last'.op.kind = "delete" => remote'[last'.op.path] = <<>>
             /\ last'.op.kind = "create" => remote'[last'.op.path] = <<last'.op.note>>
             /\ last'.op.kind = "save"
                  => /\ remote'[last'.op.path] # <<>>
                     /\ \A f \in DOMAIN last'.op.note :
                          remote'[last'.op.path][1][f] = last'.op.note[f]
     /\ (OpSettles /\ last'.op.kind \in ReloadingKinds /\ last'.outcome = "resolved")
          => ReloadTriggered
     /\ (OpSettles /\ last'.op.kind \in ReloadingKinds /\ last'.outcome = "raised")
          => /\ ~ReloadTriggered
             /\ last'.reloads = 0
             /\ reloads' = reloads
             /\ remote' = remote
     /\ \A r \in DOMAIN reloads :
          (Fetches(r) /\ reloads[r].by # "user")
            => LET w == reloads[r].wrote
               IN /\ w[1][1] = UidPath(uid)
                  /\ remote[w[1]] = w[2]
                       => NoteOf(reloads'[r].snap, w[1][2])
                            = (IF w[2] = <<>> THEN <<>>
                               ELSE <<[id |-> w[1][2]] @@ w[2][1]>>)]_vars

\* C14 witness: the reload a delete dispatched has fetched a collection without
\* the deleted note, while the client still lists that note
C14_Witness ==
  \E r \in DOMAIN reloads :
    /\ reloads[r].by = "delete" /\ reloads[r].pc = "fetched"
    /\ reloads[r].wrote[2] = <<>>
    /\ NoteOf(reloads[r].snap, reloads[r].wrote[1][2]) = <<>>
    /\ NoteOf(notes, reloads[r].wrote[1][2]) # <<>>

\* C15: with a signed-in user, after creates, saves and deletes whose remote
\* calls and reloads all succeeded, once no operation and no reload is pending
\* the client Notes collection holds exactly the notes of the remote store,
\* whatever the order in which the reloads were answered.
C15_NotesMatchStoreWhenQuiet ==
  (uid # NoUid /\ started > 0 /\ ops = <<>> /\ reloads = <<>>)
    => LET stored == loadNotes(UidPath(uid), MaxOps)
       IN {notes[j] : j \in DOMAIN notes} = {stored[j] : j \in DOMAIN stored}

\* a resetInfo thunk called with this value of `cancelled` runs in this step: it
\* starts and suspends at its fetch, or it settles
ResetStep(cancelled) ==
  \/ Suspends("reset") /\ ops'[Len(ops')].cancelled = cancelled
  \/ OpSettles /\ last'.op.kind = "reset" /\ last'.op.cancelled = cancelled

\* C16: isCanceling changes only in a step of ResetSectionInfo called with
\* cancelled = true: no step of a note operation or of a reload changes it, and
\* no step of ResetSectionInfo with cancelled = false does, whether it starts,
\* dispatches, skips an unknown key or fails. No step of ResetSectionInfo
\* changes isSaving.
C16_CancelingOnlyByCancelledReset ==
  [][/\ isCanceling' # isCanceling => ResetStep(TRUE)
     /\ ResetStep(FALSE) => isCanceling' = isCanceling
     /\ (ResetStep(TRUE) \/ ResetStep(FALSE)) => isSaving' = isSaving]_vars

\* C16 witness: a reset called with cancelled = false has settled while both
\* flags were set, and left both set
C16_Witness ==
  /\ last.op.kind = "reset" /\ ~last.op.cancelled
  /\ isCanceling
  /\ isSaving

\* C17: isSaving is true in every state in which a CreateNote, SaveActiveNote,
\* UploadAttachments or DeleteActiveNote has started and is still waiting for
\* its remote call, also when another such operation has finished meanwhile.
C17_SavingWhileInFlight ==
  (\E i \in DOMAIN ops : ops[i].kind \in SavingKinds) => isSaving

\* C18: once DeleteActiveNote's remote delete of a note has succeeded, no
\* document exists at that note's path in any later state.
C18_DeletedStaysDeleted ==
  \A p \in deleted : remote[p] = <<>>

\* C18, as the code has it: after a successful delete a document appears again
\* at the note's path only through the merge-write of a SaveActiveNote for that
\* note acknowledged after the delete, and every such write does recreate the
\* document, with exactly the fields of the save's body.
C18_DeletedReturnsOnlyBySave ==
  [][\A p \in deleted :
       /\ (remote[p] = <<>> /\ remote'[p] # <<>>)
            => /\ OpSettles
               /\ last'.op.kind = "save"
               /\ last'.outcome = "resolved"
               /\ last'.op.path = p
       /\ (/\ OpSettles /\ last'.op.kind = "save" /\ last'.outcome = "resolved"
           /\ last'.op.path = p /\ remote[p] = <<>>)
            => remote'[p] = <<last'.op.note>>]_vars

\* C18 witness: a save that was racing with the delete of the same note has been
\* written after the delete, and the deleted document is back
C18_Witness ==
  /\ last.op.kind = "save" /\ last.outcome = "resolved"
  /\ ~last.op.alone
  /\ last.op.path \in deleted
  /\ remote[last.op.path] = <<last.op.note>>

\* the user dispatches a thunk of this kind in this step: it suspends at its
\* remote call, or it runs to its end at once
Dispatched(kind) ==
  /\ started' = started + 1
  /\ \/ Suspends(kind)
     \/ OpSettles /\ last'.op.kind = kind /\ Len(ops') = Len(ops)

\* C19: SaveActiveNote and DeleteActiveNote called with no active note settle at
\* once: no remote write or delete is issued, no reload is dispatched, the error
\* is reported once and the operation raises; the Notes collection, the active
\* note and the remote store are as before.
C19_NoActiveNoteFailsCleanly ==
  [][((Dispatched("save") \/ Dispatched("delete")) /\ active = <<>>)
       => /\ OpSettles
          /\ last'.outcome = "raised"
          /\ last'.calls = 0
          /\ last'.reloads = 0
          /\ last'.reported = 1
          /\ errorMessage' = "TypeError"
          /\ ~ReloadTriggered
          /\ UNCHANGED <<notes, active, remote, reloads, deleted>>
          /\ Len(ops') = Len(ops)]_vars

\* C19 witness: a delete called with no active note has raised and reported,
\* while a create was still waiting for its write
C19_Witness ==
  /\ last.op.kind = "delete" /\ last.outcome = "raised" /\ last.calls = 0
  /\ active = <<>>
  /\ errorMessage = "TypeError"
  /\ \E i \in DOMAIN ops : ops[i].kind = "create"
  /\ \A p \in Paths : remote[p] = <<>>
====
